---- MODULE Spec2Model ----
(***************************************************************************)
(* Model of src/tx.go: the memoizing transaction wrappers Tx and TxNew.    *)
(* A behaviour constructs one view (NewTx, NewTxNew, NewTxFromBytes or     *)
(* NewTxFromReader) and then calls its methods in any order.  Pointers are *)
(* modelled as [addr, val] cells with addr = 0 for nil; the record's       *)
(* routines (wire.MsgTx / wire.MsgTxNew) are counted in `calls`.           *)
(***************************************************************************)
EXTENDS Integers, Sequences, FiniteSets, TLC

VARIABLES t, err, ret, op, arg, ctor, input, pc, calls, nalloc, nops

vars == <<t, err, ret, op, arg, ctor, input, pc, calls, nalloc, nops>>

\* ---- bounds ----
MaxByte == 1
MaxLen == 3
MaxIndex == 1
NumThreads == 2
MaxOps == 4

\* ---- program constants ----
TxIndexUnknown == -1

\* ---- values ----
Bytes == 0..MaxByte

RECURSIVE SeqsUpTo(_)
SeqsUpTo(n) ==
    IF n = 0 THEN {<<>>}
    ELSE LET S == SeqsUpTo(n - 1)
         IN S \cup {Append(s, b) : s \in {x \in S : Len(x) = n - 1}, b \in Bytes}

Buffers == SeqsUpTo(MaxLen)

Indexes == (-2)..MaxIndex

\* a nil pointer, and the test for it
NilPtr == [addr |-> 0, val |-> 0]
IsNil(p) == p.addr = 0

\* the nil view (*Tx)(nil) / (*TxNew)(nil), and the nil error
NilView == [kind |-> "nil"]
NoErr == "nil"

Routines == {"TxHash", "WitnessHash", "HasWitness", "CreateMsgTx"}

\* ---- the wrapped records (package wire) ----
MsgTxs == [enc : {"legacy"}, payload : Bytes, witness : Bytes]
MsgTxNews == [enc : {"new"}, payload : Bytes, witness : Bytes]

\* identity hash: a digest of the transaction without its witness data
MsgTx_TxHash(m) == 5 * m.payload + 1
\* witness hash: a digest that also covers the witness data
MsgTx_WitnessHash(m) ==
    IF m.witness = 0 THEN MsgTx_TxHash(m) ELSE 5 * m.payload + 3 * m.witness + 2
MsgTx_HasWitness(m) == m.witness # 0

MsgTxNew_TxHash(m) == 5 * m.payload + 1
MsgTxNew_HasWitness(m) == m.witness # 0
\* conversion of a new-encoded record into the legacy shape
MsgTxNew_CreateMsgTx(m) == [enc |-> "legacy", payload |-> m.payload, witness |-> m.witness]

\* decoder: byte 1 is the payload, byte 2 the witness section; a reader that
\* ends before them gives io.EOF / io.ErrUnexpectedEOF
MsgTxNew_Deserialize(r) ==
    IF Len(r) = 0 THEN [err |-> "EOF", msg |-> NilPtr]
    ELSE IF Len(r) = 1 THEN [err |-> "unexpected EOF", msg |-> NilPtr]
    ELSE [err |-> NoErr,
          msg |-> [enc |-> "new", payload |-> r[1], witness |-> r[2]]]

\* ---- results of a method call ----
Returned(v, r, called) == [t |-> v, ret |-> r, called |-> called, panic |-> FALSE]
Panicked(v) == [t |-> v, ret |-> NilPtr, called |-> {}, panic |-> TRUE]

\* ---- constructors ----
\* mutant: hashes the record while constructing the view
NewTx_Eager(msgTx) ==
    [kind |-> "Tx", msgTx |-> msgTx,
     txHash |-> [addr |-> 1, val |-> MsgTx_TxHash(msgTx)],
     txHashWitness |-> NilPtr, txHasWitness |-> NilPtr, txIndex |-> TxIndexUnknown]

NewTx(msgTx) ==
    [kind |-> "Tx", msgTx |-> msgTx, txHash |-> NilPtr, txHashWitness |-> NilPtr,
     txHasWitness |-> NilPtr, txIndex |-> TxIndexUnknown]

NewTxNew(msgTx) ==
    [kind |-> "Tx", msgTx |-> msgTx, txHash |-> NilPtr, txHashWitness |-> NilPtr,
     txHasWitness |-> NilPtr, txIndex |-> TxIndexUnknown]

\* mutant: hands out a view although decoding failed
NewTxFromReader_KeepView(r) ==
    LET d == MsgTxNew_Deserialize(r)
    IN [t |-> [kind |-> "TxNew", msgTxNew |-> d.msg, txHash |-> NilPtr,
               txHashWitness |-> NilPtr, txHasWitness |-> NilPtr,
               txIndex |-> TxIndexUnknown],
        err |-> d.err]

NewTxFromReader(r) ==
    LET d == MsgTxNew_Deserialize(r)
    IN IF d.err # NoErr
       THEN [t |-> NilView, err |-> d.err]
       ELSE [t |-> [kind |-> "TxNew", msgTxNew |-> d.msg, txHash |-> NilPtr,
                    txHashWitness |-> NilPtr, txHasWitness |-> NilPtr,
                    txIndex |-> TxIndexUnknown],
             err |-> NoErr]

NewTxFromBytes(serializedTx) == NewTxFromReader(serializedTx)

\* ---- methods; a is the address of the next allocated cell ----
Tx_MsgTx(v) == Returned(v, v.msgTx, {})
TxNew_MsgTxNew(v) == Returned(v, v.msgTxNew, {})
\* mutant: hands out the wrapped record itself instead of converting it
TxNew_MsgTx_NoConvert(v) == Returned(v, v.msgTxNew, {})
TxNew_MsgTx(v) == Returned(v, MsgTxNew_CreateMsgTx(v.msgTxNew), {"CreateMsgTx"})

\* mutant: fills the witness-hash slot along with the identity hash
Tx_Hash_BothSlots(v, a) ==
    IF ~IsNil(v.txHash) THEN Returned(v, v.txHash, {})
    ELSE LET hash == [addr |-> a, val |-> MsgTx_TxHash(v.msgTx)]
         IN Returned([v EXCEPT !.txHash = hash, !.txHashWitness = hash], hash, {"TxHash"})

\* mutant: hashes with the witness routine
Tx_Hash_Witness(v, a) ==
    IF ~IsNil(v.txHash) THEN Returned(v, v.txHash, {})
    ELSE LET hash == [addr |-> a, val |-> MsgTx_WitnessHash(v.msgTx)]
         IN Returned([v EXCEPT !.txHash = hash], hash, {"TxHash"})

Tx_Hash(v, a) ==
    IF ~IsNil(v.txHash) THEN Returned(v, v.txHash, {})
    ELSE LET hash == [addr |-> a, val |-> MsgTx_TxHash(v.msgTx)]
         IN Returned([v EXCEPT !.txHash = hash], hash, {"TxHash"})

\* mutant: hashes the record's legacy conversion
TxNew_Hash_ViaLegacy(v, a) ==
    IF ~IsNil(v.txHash) THEN Returned(v, v.txHash, {})
    ELSE LET hash == [addr |-> a,
                      val |-> MsgTx_TxHash(MsgTxNew_CreateMsgTx(v.msgTxNew))]
         IN Returned([v EXCEPT !.txHash = hash], hash, {"TxHash", "CreateMsgTx"})

\* mutant: computes the hash but never stores it
TxNew_Hash_NoStore(v, a) ==
    IF ~IsNil(v.txHash) THEN Returned(v, v.txHash, {})
    ELSE LET hash == [addr |-> a, val |-> MsgTxNew_TxHash(v.msgTxNew)]
         IN Returned(v, hash, {"TxHash"})

TxNew_Hash(v, a) ==
    IF ~IsNil(v.txHash) THEN Returned(v, v.txHash, {})
    ELSE LET hash == [addr |-> a, val |-> MsgTxNew_TxHash(v.msgTxNew)]
         IN Returned([v EXCEPT !.txHash = hash], hash, {"TxHash"})

\* mutant: tests the identity-hash slot instead of the witness-hash slot
Tx_WitnessHash_WrongSlot(v, a) ==
    IF ~IsNil(v.txHash) /\ ~IsNil(v.txHashWitness) THEN Returned(v, v.txHashWitness, {})
    ELSE LET hash == [addr |-> a, val |-> MsgTx_WitnessHash(v.msgTx)]
         IN Returned([v EXCEPT !.txHashWitness = hash], hash, {"WitnessHash"})

Tx_WitnessHash(v, a) ==
    IF ~IsNil(v.txHashWitness) THEN Returned(v, v.txHashWitness, {})
    ELSE LET hash == [addr |-> a, val |-> MsgTx_WitnessHash(v.msgTx)]
         IN Returned([v EXCEPT !.txHashWitness = hash], hash, {"WitnessHash"})

\* mutant: answers false when the flag was never computed
Tx_HasWitness_Default(v, a) ==
    IF ~IsNil(v.txHashWitness)
    THEN IF IsNil(v.txHasWitness) THEN Returned(v, FALSE, {})
         ELSE Returned(v, v.txHasWitness.val, {})
    ELSE LET hasWitness == [addr |-> a, val |-> MsgTx_HasWitness(v.msgTx)]
         IN Returned([v EXCEPT !.txHasWitness = hasWitness], hasWitness.val,
                     {"HasWitness"})

\* the test reads txHashWitness, the dereference reads txHasWitness
Tx_HasWitness(v, a) ==
    IF ~IsNil(v.txHashWitness)
    THEN IF IsNil(v.txHasWitness) THEN Panicked(v)
         ELSE Returned(v, v.txHasWitness.val, {})
    ELSE LET hasWitness == [addr |-> a, val |-> MsgTx_HasWitness(v.msgTx)]
         IN Returned([v EXCEPT !.txHasWitness = hasWitness], hasWitness.val,
                     {"HasWitness"})

\* mutant: stores the computed flag but returns the zero value
TxNew_HasWitness_ZeroValue(v, a) ==
    IF ~IsNil(v.txHasWitness) THEN Returned(v, v.txHasWitness.val, {})
    ELSE LET hasWitness == [addr |-> a, val |-> MsgTxNew_HasWitness(v.msgTxNew)]
         IN Returned([v EXCEPT !.txHasWitness = hasWitness], FALSE, {"HasWitness"})

TxNew_HasWitness(v, a) ==
    IF ~IsNil(v.txHasWitness) THEN Returned(v, v.txHasWitness.val, {})
    ELSE LET hasWitness == [addr |-> a, val |-> MsgTxNew_HasWitness(v.msgTxNew)]
         IN Returned([v EXCEPT !.txHasWitness = hasWitness], hasWitness.val,
                     {"HasWitness"})

Tx_Index(v) == Returned(v, v.txIndex, {})
TxNew_Index(v) == Returned(v, v.txIndex, {})
\* mutant: rejects a negative index
Tx_SetIndex_Validating(v, index) ==
    IF index < 0 THEN Returned(v, NilPtr, {})
    ELSE Returned([v EXCEPT !.txIndex = index], NilPtr, {})

Tx_SetIndex(v, index) == Returned([v EXCEPT !.txIndex = index], NilPtr, {})
\* mutant: drops the cached hash when the index changes
TxNew_SetIndex_Invalidating(v, index) ==
    Returned([v EXCEPT !.txIndex = index, !.txHash = NilPtr], NilPtr, {})

TxNew_SetIndex(v, index) == Returned([v EXCEPT !.txIndex = index], NilPtr, {})

\* ---- state machine ----
Init ==
    /\ t = NilView
    /\ err = NoErr
    /\ ret = NilPtr
    /\ op = "none"
    /\ arg = 0
    /\ ctor = "none"
    /\ input = <<>>
    /\ pc = "init"
    /\ calls = [c \in Routines |-> 0]
    /\ nalloc = 0
    /\ nops = 0

\* a constructor returned view v and error e for input x
Construct(name, x, v, e) ==
    /\ pc = "init"
    /\ t' = v
    /\ err' = e
    /\ pc' = IF e = NoErr THEN "live" ELSE "failed"
    /\ op' = name
    /\ ctor' = name
    /\ input' = x
    /\ UNCHANGED <<ret, arg, calls, nalloc, nops>>

\* a method of kind k was called with argument x and gave result r
Call(k, name, x, r) ==
    /\ pc = "live"
    /\ t.kind = k
    /\ nops < MaxOps
    /\ t' = r.t
    /\ ret' = r.ret
    /\ pc' = IF r.panic THEN "panic" ELSE "live"
    /\ calls' = [c \in Routines |-> calls[c] + IF c \in r.called THEN 1 ELSE 0]
    /\ nalloc' = nalloc + Cardinality(r.called \ {"CreateMsgTx"})
    /\ op' = name
    /\ arg' = x
    /\ nops' = nops + 1
    /\ UNCHANGED <<err, ctor, input>>

DoNewTx == \E m \in MsgTxs : Construct("NewTx", m, NewTx(m), NoErr)
DoNewTxNew == \E m \in MsgTxs : Construct("NewTxNew", m, NewTxNew(m), NoErr)
DoNewTxFromBytes ==
    \E b \in Buffers :
        LET r == NewTxFromBytes(b) IN Construct("NewTxFromBytes", b, r.t, r.err)
DoNewTxFromReader ==
    \E b \in Buffers :
        LET r == NewTxFromReader(b) IN Construct("NewTxFromReader", b, r.t, r.err)

DoTx_MsgTx == Call("Tx", "Tx.MsgTx", 0, Tx_MsgTx(t))
DoTx_Hash == Call("Tx", "Tx.Hash", 0, Tx_Hash(t, nalloc + 1))
DoTx_WitnessHash == Call("Tx", "Tx.WitnessHash", 0, Tx_WitnessHash(t, nalloc + 1))
DoTx_HasWitness == Call("Tx", "Tx.HasWitness", 0, Tx_HasWitness(t, nalloc + 1))
DoTx_Index == Call("Tx", "Tx.Index", 0, Tx_Index(t))
DoTx_SetIndex == \E i \in Indexes : Call("Tx", "Tx.SetIndex", i, Tx_SetIndex(t, i))

DoTxNew_MsgTxNew == Call("TxNew", "TxNew.MsgTxNew", 0, TxNew_MsgTxNew(t))
DoTxNew_MsgTx == Call("TxNew", "TxNew.MsgTx", 0, TxNew_MsgTx(t))
DoTxNew_Hash == Call("TxNew", "TxNew.Hash", 0, TxNew_Hash(t, nalloc + 1))
DoTxNew_HasWitness == Call("TxNew", "TxNew.HasWitness", 0, TxNew_HasWitness(t, nalloc + 1))
DoTxNew_Index == Call("TxNew", "TxNew.Index", 0, TxNew_Index(t))
DoTxNew_SetIndex ==
    \E i \in Indexes : Call("TxNew", "TxNew.SetIndex", i, TxNew_SetIndex(t, i))

Next ==
    \/ DoNewTx
    \/ DoNewTxNew
    \/ DoNewTxFromBytes
    \/ DoNewTxFromReader
    \/ DoTx_MsgTx
    \/ DoTx_Hash
    \/ DoTx_WitnessHash
    \/ DoTx_HasWitness
    \/ DoTx_Index
    \/ DoTx_SetIndex
    \/ DoTxNew_MsgTxNew
    \/ DoTxNew_MsgTx
    \/ DoTxNew_Hash
    \/ DoTxNew_HasWitness
    \/ DoTxNew_Index
    \/ DoTxNew_SetIndex

Spec == Init /\ [][Next]_vars

\* ---- two views of one transaction, driven by the same calls ----
\* t, ret hold a legacy and a new component; calls and nalloc count both views

\* a legacy record and a buffer that decodes to a new record with the same
\* record-level identity hash and has-witness result
SameTransaction(l, b) ==
    LET d == MsgTxNew_Deserialize(b)
    IN /\ d.err = NoErr
       /\ MsgTx_TxHash(l) = MsgTxNew_TxHash(d.msg)
       /\ MsgTx_HasWitness(l) = MsgTxNew_HasWitness(d.msg)

ConstructPair ==
    \E l \in MsgTxs, b \in Buffers :
        /\ pc = "init"
        /\ SameTransaction(l, b)
        /\ t' = [legacy |-> NewTx(l), new |-> NewTxFromBytes(b).t]
        /\ err' = NewTxFromBytes(b).err
        /\ ret' = [legacy |-> NilPtr, new |-> NilPtr]
        /\ pc' = "live"
        /\ op' = "construct"
        /\ ctor' = "pair"
        /\ input' = <<l, b>>
        /\ UNCHANGED <<arg, calls, nalloc, nops>>

\* the same method was called on both views, giving rl and rn
CallPair(name, x, rl, rn) ==
    /\ pc = "live"
    /\ nops < MaxOps
    /\ t' = [legacy |-> rl.t, new |-> rn.t]
    /\ ret' = [legacy |-> rl.ret, new |-> rn.ret]
    /\ pc' = IF rl.panic \/ rn.panic THEN "panic" ELSE "live"
    /\ calls' = [c \in Routines |->
                    calls[c] + (IF c \in rl.called THEN 1 ELSE 0)
                             + (IF c \in rn.called THEN 1 ELSE 0)]
    /\ nalloc' = nalloc + Cardinality(rl.called \ {"CreateMsgTx"})
                       + Cardinality(rn.called \ {"CreateMsgTx"})
    /\ op' = name
    /\ arg' = x
    /\ nops' = nops + 1
    /\ UNCHANGED <<err, ctor, input>>

DoBothMsgTx == CallPair("MsgTx", 0, Tx_MsgTx(t.legacy), TxNew_MsgTx(t.new))
DoBothHash ==
    CallPair("Hash", 0, Tx_Hash(t.legacy, nalloc + 1), TxNew_Hash(t.new, nalloc + 2))
DoBothHasWitness ==
    CallPair("HasWitness", 0, Tx_HasWitness(t.legacy, nalloc + 1),
             TxNew_HasWitness(t.new, nalloc + 2))
DoBothIndex == CallPair("Index", 0, Tx_Index(t.legacy), TxNew_Index(t.new))
DoBothSetIndex ==
    \E i \in Indexes :
        CallPair("SetIndex", i, Tx_SetIndex(t.legacy, i), TxNew_SetIndex(t.new, i))

NextPair ==
    \/ ConstructPair
    \/ DoBothMsgTx
    \/ DoBothHash
    \/ DoBothHasWitness
    \/ DoBothIndex
    \/ DoBothSetIndex

SpecPair == Init /\ [][NextPair]_vars

\* ---- several goroutines calling one accessor of one view ----
\* The methods take no lock, so a call is three separate memory accesses: the
\* test of the slot, the routine call into a fresh local cell, and the store
\* of the cell's address.  The store races with the other goroutines' tests:
\* nothing orders the write of the cell's content before the write of its
\* address, so another goroutine can see the address while the cell still
\* holds its zero value.  arg holds each goroutine's position and local cell,
\* ret each goroutine's last return value, input the accessor under test.
Threads == 1..NumThreads

Accessors(k) ==
    IF k = "Tx" THEN {"Hash", "WitnessHash", "HasWitness"} ELSE {"Hash", "HasWitness"}

\* the slot an accessor stores into
OwnSlot(acc) ==
    CASE acc = "Hash" -> "txHash"
      [] acc = "WitnessHash" -> "txHashWitness"
      [] acc = "HasWitness" -> "txHasWitness"

\* the slot an accessor tests before computing
TestedSlot(k, acc) ==
    IF k = "Tx" /\ acc = "HasWitness" THEN "txHashWitness" ELSE OwnSlot(acc)

\* the record routine an accessor calls, and its result
RoutineOf(acc) == IF acc = "Hash" THEN "TxHash" ELSE acc
RoutineResult(v, acc) ==
    IF v.kind = "Tx"
    THEN CASE acc = "Hash" -> MsgTx_TxHash(v.msgTx)
           [] acc = "WitnessHash" -> MsgTx_WitnessHash(v.msgTx)
           [] acc = "HasWitness" -> MsgTx_HasWitness(v.msgTx)
    ELSE CASE acc = "Hash" -> MsgTxNew_TxHash(v.msgTxNew)
           [] acc = "HasWitness" -> MsgTxNew_HasWitness(v.msgTxNew)

\* the zero value of a freshly allocated cell
ZeroOf(acc) == IF acc = "HasWitness" THEN FALSE ELSE 0

\* what the caller gets from a cell: the flag itself, or the hash it points to
ValueOf(acc, r) == IF acc = "HasWitness" THEN r ELSE r.val

ConstructConc ==
    \E v \in {NewTx(m) : m \in MsgTxs}
             \cup {NewTxFromBytes(b).t : b \in {x \in Buffers : Len(x) = 2}} :
      \E acc \in Accessors(v.kind) :
        /\ pc = "init"
        /\ t' = v
        /\ pc' = "live"
        /\ op' = "construct"
        /\ ctor' = IF v.kind = "Tx" THEN "NewTx" ELSE "NewTxFromBytes"
        /\ input' = acc
        /\ arg' = [th \in Threads |-> [pc |-> "idle", hash |-> NilPtr]]
        /\ ret' = [th \in Threads |-> NilPtr]
        /\ UNCHANGED <<err, calls, nalloc, nops>>

\* if t.slot != nil { return ... }
Test(th) ==
    /\ pc = "live"
    /\ arg[th].pc \in {"idle", "done"}
    /\ nops < MaxOps
    /\ nops' = nops + 1
    /\ op' = "test"
    /\ IF IsNil(t[TestedSlot(t.kind, input)])
       THEN /\ arg' = [arg EXCEPT ![th].pc = "compute"]
            /\ UNCHANGED <<ret, pc>>
       ELSE IF IsNil(t[OwnSlot(input)])
       THEN /\ pc' = "panic"
            /\ UNCHANGED <<ret, arg>>
       ELSE /\ ret' = [ret EXCEPT ![th] = IF input = "HasWitness"
                                          THEN t[OwnSlot(input)].val
                                          ELSE t[OwnSlot(input)]]
            /\ arg' = [arg EXCEPT ![th].pc = "done"]
            /\ UNCHANGED pc
    /\ UNCHANGED <<t, err, ctor, input, calls, nalloc>>

\* hash := t.msgTx.TxHash()
Compute(th) ==
    /\ pc = "live"
    /\ arg[th].pc = "compute"
    /\ arg' = [arg EXCEPT ![th] = [pc |-> "store",
                                   hash |-> [addr |-> nalloc + 1,
                                             val |-> RoutineResult(t, input)]]]
    /\ calls' = [calls EXCEPT ![RoutineOf(input)] = calls[RoutineOf(input)] + 1]
    /\ nalloc' = nalloc + 1
    /\ op' = "compute"
    /\ UNCHANGED <<t, err, ret, ctor, input, pc, nops>>

\* t.slot = &hash, the cell's content visible before its address
StoreOrdered(th) ==
    /\ pc = "live"
    /\ arg[th].pc = "store"
    /\ t' = [t EXCEPT ![OwnSlot(input)] = arg[th].hash]
    /\ arg' = [arg EXCEPT ![th].pc = "return"]
    /\ op' = "store"
    /\ UNCHANGED <<err, ret, ctor, input, pc, calls, nalloc, nops>>

\* t.slot = &hash, the cell's address visible before its content
StoreAddressFirst(th) ==
    /\ pc = "live"
    /\ arg[th].pc = "store"
    /\ t' = [t EXCEPT ![OwnSlot(input)] =
                 [addr |-> arg[th].hash.addr, val |-> ZeroOf(input)]]
    /\ arg' = [arg EXCEPT ![th].pc = "fill"]
    /\ op' = "store address"
    /\ UNCHANGED <<err, ret, ctor, input, pc, calls, nalloc, nops>>

\* the content of the cell becomes visible to the other goroutines
Fill(th) ==
    /\ pc = "live"
    /\ arg[th].pc = "fill"
    /\ t' = IF t[OwnSlot(input)].addr = arg[th].hash.addr
            THEN [t EXCEPT ![OwnSlot(input)] = arg[th].hash]
            ELSE t
    /\ arg' = [arg EXCEPT ![th].pc = "return"]
    /\ op' = "fill"
    /\ UNCHANGED <<err, ret, ctor, input, pc, calls, nalloc, nops>>

\* return &hash / return hasWitness
Return(th) ==
    /\ pc = "live"
    /\ arg[th].pc = "return"
    /\ ret' = [ret EXCEPT ![th] = IF input = "HasWitness"
                                  THEN arg[th].hash.val
                                  ELSE arg[th].hash]
    /\ arg' = [arg EXCEPT ![th].pc = "done"]
    /\ op' = "return"
    /\ UNCHANGED <<t, err, ctor, input, pc, calls, nalloc, nops>>

NextConc ==
    \/ ConstructConc
    \/ \E th \in Threads : Test(th)
    \/ \E th \in Threads : Compute(th)
    \/ \E th \in Threads : StoreOrdered(th)
    \/ \E th \in Threads : StoreAddressFirst(th)
    \/ \E th \in Threads : Fill(th)
    \/ \E th \in Threads : Return(th)

SpecConc == Init /\ [][NextConc]_vars

\* ---- properties ----
HashOps == {"Tx.Hash", "TxNew.Hash"}
HasWitnessOps == {"Tx.HasWitness", "TxNew.HasWitness"}
SetIndexOps == {"Tx.SetIndex", "TxNew.SetIndex"}
IndexOps == {"Tx.Index", "TxNew.Index"}
Record(v) == IF v.kind = "Tx" THEN v.msgTx ELSE v.msgTxNew

\* C1: every accessor call on a constructed view returns a value; no call
\* aborts, whatever calls came before it.
C1_AccessorsTotal == pc # "panic"

\* C2: witnessHash() and hasWitnessData() are independent caches: neither call
\* touches the other's slot, and hasWitnessData() succeeds and recomputes
\* exactly when its own slot is unset, whatever the witness-hash slot holds.
C2_IndependentCaches ==
    [][/\ (op' = "Tx.WitnessHash" /\ pc = "live") =>
              t'.txHasWitness = t.txHasWitness
       /\ (op' \in HasWitnessOps /\ pc = "live") =>
              /\ pc' = "live"
              /\ t'.txHashWitness = t.txHashWitness
              /\ (calls'["HasWitness"] = calls["HasWitness"]) <=> ~IsNil(t.txHasWitness)
      ]_vars

\* C3: over any sequence of calls on one view the record's has-witness routine
\* runs at most once.
C3_HasWitnessRoutineAtMostOnce == calls["HasWitness"] <= 1

\* C4: identityHash() on a view built from record r returns, on every call and
\* whatever was called in between, the stored cell if there is one, and a value
\* equal to r's own identity hash; the wrapped record is never replaced.
C4_HashStableAndCorrect ==
    [][(op' \in HashOps /\ pc = "live") =>
          /\ Record(t') = Record(t)
          /\ t.kind = "Tx" => /\ t.msgTx = input
                              /\ ret'.val = MsgTx_TxHash(input)
          /\ t.kind = "TxNew" => ret'.val = MsgTxNew_TxHash(t.msgTxNew)
          /\ ~IsNil(t.txHash) => ret' = t.txHash
      ]_vars

C4_Witness ==
    /\ op = "Tx.Hash"
    /\ pc = "live"
    /\ t.msgTx.witness # 0
    /\ ~IsNil(t.txHashWitness)
    /\ ret.addr < t.txHashWitness.addr
    /\ t.txIndex # TxIndexUnknown

\* C5: however often identityHash() is called, and whatever is called in
\* between, the record's identity-hash routine runs at most once.
C5_HashRoutineAtMostOnce == calls["TxHash"] <= 1

C5_Witness ==
    /\ op = "TxNew.Hash"
    /\ calls["TxHash"] = 1
    /\ ~IsNil(t.txHasWitness)
    /\ ret.addr < t.txHasWitness.addr
    /\ t.txIndex # TxIndexUnknown

\* C6: the first witnessHash() call runs the record's witness-hash routine and
\* stores the result; every later call returns the stored cell without running
\* the routine, so the routine runs at most once per view.
C6_WitnessHashMemoized ==
    [][(op' = "Tx.WitnessHash" /\ pc = "live") =>
          /\ calls'["WitnessHash"] <= 1
          /\ IF IsNil(t.txHashWitness)
             THEN /\ calls'["WitnessHash"] = calls["WitnessHash"] + 1
                  /\ ret'.val = MsgTx_WitnessHash(t.msgTx)
                  /\ t'.txHashWitness = ret'
             ELSE /\ calls' = calls
                  /\ ret' = t.txHashWitness
                  /\ t' = t
      ]_vars

C6_Witness ==
    /\ op = "Tx.WitnessHash"
    /\ pc = "live"
    /\ t.msgTx.witness = 0
    /\ calls["WitnessHash"] = 1
    /\ ~IsNil(t.txHash)
    /\ ret.addr < t.txHash.addr

\* C7: a populated cache slot is never written again: in every step each of
\* the three slots that holds a cell keeps that very cell.
C7_SlotsWriteOnce ==
    [][pc = "live" =>
          /\ ~IsNil(t.txHash) => t'.txHash = t.txHash
          /\ ~IsNil(t.txHashWitness) => t'.txHashWitness = t.txHashWitness
          /\ ~IsNil(t.txHasWitness) => t'.txHasWitness = t.txHasWitness
      ]_vars

\* C8: a fresh view's index is the unknown sentinel; setBlockIndex(i) stores
\* any i, no other call changes the index, and blockIndex() returns it.
C8_IndexReadWrite ==
    [][/\ (pc = "init" /\ pc' = "live") => t'.txIndex = TxIndexUnknown
       /\ (op' \in SetIndexOps /\ pc = "live") => t'.txIndex = arg'
       /\ (op' \notin SetIndexOps /\ pc = "live") => t'.txIndex = t.txIndex
       /\ (op' \in IndexOps /\ pc = "live") => ret' = t.txIndex
      ]_vars

C8_Witness ==
    /\ op = "Tx.Index"
    /\ ret = -2
    /\ nops >= 3

\* C9: setBlockIndex leaves the record and the three cache slots as they were
\* and runs no routine; a hash accessor called right after it returns the
\* cell stored before it without running the routine.
C9_SetIndexKeepsCaches ==
    [][/\ (op' \in SetIndexOps /\ pc = "live") =>
              /\ Record(t') = Record(t)
              /\ t'.txHash = t.txHash
              /\ t'.txHashWitness = t.txHashWitness
              /\ t'.txHasWitness = t.txHasWitness
              /\ calls' = calls
       /\ (op \in SetIndexOps /\ op' \in HashOps /\ ~IsNil(t.txHash)) =>
              /\ ret' = t.txHash
              /\ calls' = calls
       /\ (op \in SetIndexOps /\ op' = "Tx.WitnessHash" /\ ~IsNil(t.txHashWitness)) =>
              /\ ret' = t.txHashWitness
              /\ calls' = calls
      ]_vars

C9_Witness ==
    /\ op = "TxNew.SetIndex"
    /\ arg # TxIndexUnknown
    /\ ~IsNil(t.txHash)
    /\ ~IsNil(t.txHasWitness)

\* C10: fromBytes on a malformed buffer returns the decoder's error as it is
\* and a nil view; on a well-formed buffer it returns no error and a view whose
\* identity hash, witness flag and (fresh) index equal those of
\* fromRecord(decode(buf)).
C10_FromBytes ==
    ctor = "NewTxFromBytes" =>
        LET d == MsgTxNew_Deserialize(input)
            w == NewTx(d.msg)
            a == nalloc + 1
        IN IF d.err # NoErr
           THEN /\ t = NilView
                /\ err = d.err
                /\ pc = "failed"
           ELSE /\ err = NoErr
                /\ pc = "live"
                /\ t.kind = "TxNew"
                /\ TxNew_Hash(t, a).ret.val = Tx_Hash(w, a).ret.val
                /\ TxNew_HasWitness(t, a).ret = Tx_HasWitness(w, a).ret
                /\ op = ctor => TxNew_Index(t).ret = Tx_Index(w).ret
                /\ op = "TxNew.Hash" => ret.val = Tx_Hash(w, a).ret.val
                /\ op = "TxNew.HasWitness" => ret = Tx_HasWitness(w, a).ret

C10_Witness ==
    /\ ctor = "NewTxFromBytes"
    /\ op = "TxNew.HasWitness"
    /\ ret = TRUE
    /\ ~IsNil(t.txHash)
    /\ Len(input) = MaxLen

\* C13: the new-variant fromRecord constructor yields a new-variant view that
\* wraps a new-encoded record, with the same operations as the legacy view.
C13_NewVariantConstructor ==
    ctor = "NewTxNew" => (t.kind = "TxNew" /\ Record(t).enc = "new")

\* C14: identityHash() changes nothing but the identity-hash slot, blockIndex()
\* and underlyingRecord() change nothing, and no call changes the wrapped
\* record.
C14_OwnSlotOnly ==
    [][pc = "live" =>
          /\ Record(t') = Record(t)
          /\ t'.kind = t.kind
          /\ op' \in HashOps => t' = [t EXCEPT !.txHash = t'.txHash]
          /\ op' = "Tx.WitnessHash" => t' = [t EXCEPT !.txHashWitness = t'.txHashWitness]
          /\ op' \in HasWitnessOps => t' = [t EXCEPT !.txHasWitness = t'.txHasWitness]
          /\ op' \in IndexOps \cup {"Tx.MsgTx", "TxNew.MsgTxNew"} => t' = t
          /\ op' = "Tx.MsgTx" => ret' = t.msgTx
          /\ op' = "TxNew.MsgTxNew" => ret' = t.msgTxNew
      ]_vars

C14_Witness ==
    /\ op = "Tx.Hash"
    /\ calls["TxHash"] = 1
    /\ ret = t.txHash
    /\ IsNil(t.txHashWitness)
    /\ IsNil(t.txHasWitness)
    /\ nops >= 2

\* C15: on the new-encoding view only the legacy-conversion accessor runs the
\* record's conversion; identityHash() and hasWitnessData() never do.
C15_NoDowngrade ==
    [][calls'["CreateMsgTx"] # calls["CreateMsgTx"] => op' = "TxNew.MsgTx"]_vars

C15_Witness ==
    /\ t.kind = "TxNew"
    /\ ~IsNil(t.txHash)
    /\ ~IsNil(t.txHasWitness)
    /\ calls["CreateMsgTx"] = 0

C17_LazyConstruction ==
    /\ (op = ctor /\ pc = "live") =>
           /\ IsNil(t.txHash)
           /\ IsNil(t.txHashWitness)
           /\ IsNil(t.txHasWitness)
           /\ t.txIndex = TxIndexUnknown
           /\ \A c \in Routines : calls[c] = 0
           /\ nalloc = 0
    /\ ctor \in {"NewTx", "NewTxNew"} => (pc # "failed" /\ err = NoErr /\ t # NilView)

C17_Witness ==
    /\ op = "NewTxFromReader"
    /\ pc = "live"
    /\ t.msgTxNew.witness # 0

\* C18: a boolean returned by hasWitnessData(), on either view and after any
\* earlier calls, is the result of the record's own has-witness routine.
C18_HasWitnessCorrect ==
    /\ (op = "Tx.HasWitness" /\ pc = "live") => ret = MsgTx_HasWitness(t.msgTx)
    /\ (op = "TxNew.HasWitness" /\ pc = "live") => ret = MsgTxNew_HasWitness(t.msgTxNew)

C18_Witness ==
    /\ op = "Tx.HasWitness"
    /\ pc = "live"
    /\ ~IsNil(t.txHashWitness)
    /\ ret = TRUE

\* C11: a legacy view and a new view of the same transaction, driven by the
\* same calls, return equal identity hashes and equal witness flags at every
\* step, and neither call aborts.
C11_CrossVariant ==
    /\ pc # "panic"
    /\ op = "Hash" => ret.legacy.val = ret.new.val
    /\ op = "HasWitness" => ret.legacy = ret.new

C11_Witness ==
    /\ op = "HasWitness"
    /\ ret.legacy = TRUE
    /\ ret.new = TRUE
    /\ calls["HasWitness"] >= 3
    /\ ~IsNil(t.new.txHash)
    /\ t.legacy.txIndex # TxIndexUnknown

====
